---- MODULE Spec2Model ----
(***************************************************************************)
(* Model of the context-scoped transaction coordinator of ezutil:          *)
(* internal.GormTransactor (Begin / Commit / Rollback / WithinTransaction),*)
(* the package-level WithinTransaction helper and GetTxFromContext.        *)
(* and of the generic repository crudRepositoryGorm (Insert, FindAll,      *)
(* FindFirst, Update, Delete, BatchInsert, GetGormInstance).  Spec is the   *)
(* transactor with its callers, RepoSpec the repository with its callers,  *)
(* UtilSpec the query scopes (Paginate, OrderBy), GetTimeRangeClause and    *)
(* Job.Run applied to the inputs their callers may pass.                   *)
(*                                                                         *)
(* The relational store (gorm over database/sql) is the environment: a     *)
(* transaction is "open" until a Commit or Rollback finishes it, a second  *)
(* Commit or Rollback on a finished transaction answers ErrTxDone, and     *)
(* Begin, Commit and Rollback may fail.                                    *)
(***************************************************************************)
EXTENDS Integers, Sequences, FiniteSets, TLC

\* ---------------------------------------------------------------- bounds
NumProcs == 2      \* goroutines calling the transactor
MaxCalls == 2      \* calls of the transactor by its callers over the whole run
MaxDepth == 2      \* nesting depth of WithinTransaction calls
MaxFaults == 1     \* failures of the store over the whole run
MaxRows == 1       \* value of the id / creation counter past which no row is created
MaxTxs == 1        \* transactions the callers of the repository begin themselves
IntBits == 4       \* width of the Go int in bits (64 in the build), scaled down
MaxFieldLen == 2   \* length of the field names given to OrderBy
MaxTime == 2       \* latest instant given to GetTimeRangeClause

Procs == 1 .. NumProcs

\* ------------------------------------------------------------- constants
\* the plain string "ezutil.gormTx", the context key unrelated code may use
PlainKey == "ezutil.gormTx"

\* the key as an untyped string constant
ContextKeyGormTx_Untyped == PlainKey

\* config.ContextKeyGormTx has the private type txKey; a plain string with the
\* same text is a different context key.
ContextKeyGormTx == "txKey:ezutil.gormTx"
MsgTransactionError == "error processing transaction"
MsgStartingTransaction == "error starting transaction"
MsgExecutingService == "error executing service function"
ErrTxDone == "sql: transaction has already been committed or rolled back"

\* ---------------------------------------------------------------- values
NoTx == 0
NilVal == [type |-> "nil", id |-> 0]
TxVal(t) == [type |-> "tx", id |-> t]

\* error values: the text of the root cause, the call whose fn produced it
\* (0 when the store produced it) and the eris wrappers, outermost first
NilErr == [kind |-> "nil", cause |-> "", at |-> 0, wraps |-> << >>]
NewErr(cause, at) == [kind |-> "err", cause |-> cause, at |-> at, wraps |-> << >>]
PanicVal(at) == [kind |-> "panic", cause |-> "panic", at |-> at, wraps |-> << >>]
NoResult == [kind |-> "none", cause |-> "", at |-> 0, wraps |-> << >>]

\* eris.Wrap(err, msg): a new error value around err
Wrap(err, msg) == [err EXCEPT !.wraps = <<msg>> \o @]

\* ------------------------------------------------------------- contexts
\* context.Background()
Background == << >>
\* the nil context Begin returns next to an error
NilCtx == <<[key |-> "nil", val |-> NilVal]>>

\* context.WithValue(ctx, key, val): a derived context, ctx itself is unchanged
WithValue(ctx, key, val) == Append(ctx, [key |-> key, val |-> val])

\* ctx.Value(key): the innermost binding of key, nil when there is none
Value(ctx, key) ==
    LET idx == {i \in 1 .. Len(ctx) : ctx[i].key = key}
    IN  IF idx = {} THEN NilVal
        ELSE ctx[CHOOSE i \in idx : \A j \in idx : j <= i].val

\* GetTxFromContext as its doc comment words it: no transaction in the context
\* is an error
GetTxFromContext_ErrorIfAbsent(ctx) ==
    LET trx == Value(ctx, ContextKeyGormTx)
    IN  IF trx # NilVal /\ trx.type = "tx"
        THEN [tx |-> trx.id, err |-> NilErr]
        ELSE [tx |-> NoTx, err |-> NewErr("error getting tx from ctx", 0)]

\* GetTxFromContext taking a value of another type for no transaction
GetTxFromContext_NilOnWrongType(ctx) ==
    LET trx == Value(ctx, ContextKeyGormTx)
    IN  IF trx # NilVal /\ trx.type = "tx"
        THEN [tx |-> trx.id, err |-> NilErr]
        ELSE [tx |-> NoTx, err |-> NilErr]

\* internal.GetTxFromContext
GetTxFromContext(ctx) ==
    LET trx == Value(ctx, ContextKeyGormTx)
    IN  IF trx # NilVal
        THEN IF trx.type # "tx"
             THEN [tx |-> NoTx, err |-> NewErr("error getting tx from ctx", 0)]
             ELSE [tx |-> trx.id, err |-> NilErr]
        ELSE [tx |-> NoTx, err |-> NilErr]

\* ---------------------------------------------------------------- store
\* st = [txs |-> sequence of transactions, visible |-> committed rows, seq |-> counter]
\* seq is the counter behind server-assigned ids and creation times.
\* a transaction: status, the rows written and the committed rows deleted
\* through it and not yet committed, the Commit/Rollback operations issued on it.  A transaction is "open",
\* "committed" (its rows are visible) or "rolledback" (closed, its rows dropped:
\* by a Rollback, or by a Commit or Rollback that failed in the store)
NewTx == [status |-> "open", writes |-> {}, deletes |-> {}, ops |-> << >>]

LogOp(st, t, op, res, by) ==
    [st EXCEPT !.txs[t].ops = Append(@, [op |-> op, res |-> res, by |-> by])]

\* Begin handing out the transaction that is already open, as a transactor
\* keeping its handle in a field of its own would
StoreBegin_SharedHandle(st, ok) ==
    LET open == {t \in 1 .. Len(st.txs) : st.txs[t].status = "open"}
    IN  IF ~ok THEN [st |-> st, tx |-> NoTx, err |-> NewErr("begin failed", 0)]
        ELSE IF open # {}
        THEN [st |-> st, tx |-> CHOOSE t \in open : \A u \in open : u <= t, err |-> NilErr]
        ELSE [st |-> [st EXCEPT !.txs = Append(@, NewTx)], tx |-> Len(st.txs) + 1, err |-> NilErr]

\* tx := DB.WithContext(ctx).Begin(): a new transaction of the base connection
StoreBegin(st, ok) ==
    IF ok
    THEN [st |-> [st EXCEPT !.txs = Append(@, NewTx)], tx |-> Len(st.txs) + 1, err |-> NilErr]
    ELSE [st |-> st, tx |-> NoTx, err |-> NewErr("begin failed", 0)]

\* tx.Commit(): out is the store's answer for an open transaction:
\* "ok", "err" (failed, transaction closed) or "errOpen" (refused, still open)
StoreCommit(st, t, out, by) ==
    IF st.txs[t].status # "open"
    THEN [st |-> LogOp(st, t, "commit", "txdone", by), err |-> NewErr(ErrTxDone, 0)]
    ELSE IF out = "ok"
    THEN [st |-> LogOp([st EXCEPT !.txs[t].status = "committed", !.txs[t].writes = {},
                                  !.txs[t].deletes = {},
                                  !.visible = (@ \ st.txs[t].deletes) \cup st.txs[t].writes],
                       t, "commit", "ok", by),
          err |-> NilErr]
    ELSE IF out = "err"
    THEN [st |-> LogOp([st EXCEPT !.txs[t].status = "rolledback", !.txs[t].writes = {},
                                  !.txs[t].deletes = {}],
                       t, "commit", "err", by),
          err |-> NewErr("commit failed", 0)]
    ELSE [st |-> LogOp(st, t, "commit", "errOpen", by), err |-> NewErr("context canceled", 0)]

\* tx.Rollback(): out is the store's answer for an open transaction:
\* "ok" or "err" (failed, transaction closed all the same)
StoreRollback(st, t, out, by) ==
    IF st.txs[t].status # "open"
    THEN [st |-> LogOp(st, t, "rollback", "txdone", by), err |-> NewErr(ErrTxDone, 0)]
    ELSE IF out = "ok"
    THEN [st |-> LogOp([st EXCEPT !.txs[t].status = "rolledback", !.txs[t].writes = {},
                                  !.txs[t].deletes = {}],
                       t, "rollback", "ok", by),
          err |-> NilErr]
    ELSE [st |-> LogOp([st EXCEPT !.txs[t].status = "rolledback", !.txs[t].writes = {},
                                  !.txs[t].deletes = {}],
                       t, "rollback", "err", by),
          err |-> NewErr("rollback failed", 0)]

\* database/sql rolls a transaction back by itself once the context it was
\* begun with (DB.WithContext(ctx).Begin()) is cancelled
StoreCancel(st, t, by) ==
    LogOp([st EXCEPT !.txs[t].status = "rolledback", !.txs[t].writes = {}, !.txs[t].deletes = {}],
          t, "cancel", "ok", by)

\* tx.Create(&row) inside fn
StoreCreate(st, t, row) ==
    IF st.txs[t].status = "open"
    THEN [st EXCEPT !.txs[t].writes = @ \cup {row}]
    ELSE st

\* ------------------------------------------------------------ transactor
\* Begin attaching the handle to the context it was given, in place
Begin_AttachInPlace(st, ctx, ok) ==
    LET b == StoreBegin(st, ok)
    IN  IF b.err # NilErr
        THEN [st |-> b.st, ctx |-> NilCtx, tx |-> NoTx, err |-> Wrap(b.err, MsgTransactionError),
              given |-> ctx]
        ELSE [st |-> b.st, ctx |-> WithValue(ctx, ContextKeyGormTx, TxVal(b.tx)),
              tx |-> b.tx, err |-> NilErr,
              given |-> WithValue(ctx, ContextKeyGormTx, TxVal(b.tx))]

\* GormTransactor.Begin; given is the context of the caller as the call leaves
\* it: context.WithValue derives a new context and does not touch its parent
Begin(st, ctx, ok) ==
    LET b == StoreBegin(st, ok)
    IN  IF b.err # NilErr
        THEN [st |-> b.st, ctx |-> NilCtx, tx |-> NoTx, err |-> Wrap(b.err, MsgTransactionError),
              given |-> ctx]
        ELSE [st |-> b.st, ctx |-> WithValue(ctx, ContextKeyGormTx, TxVal(b.tx)),
              tx |-> b.tx, err |-> NilErr, given |-> ctx]

\* Commit reporting success whatever the store answered
Commit_SwallowError(st, ctx, out, by) ==
    LET g == GetTxFromContext(ctx)
    IN  IF g.err # NilErr THEN [st |-> st, err |-> g.err]
        ELSE IF g.tx # NoTx
        THEN [st |-> StoreCommit(st, g.tx, out, by).st, err |-> NilErr]
        ELSE [st |-> st, err |-> NilErr]

\* GormTransactor.Commit
Commit(st, ctx, out, by) ==
    LET g == GetTxFromContext(ctx)
    IN  IF g.err # NilErr THEN [st |-> st, err |-> g.err]
        ELSE IF g.tx # NoTx
        THEN LET c == StoreCommit(st, g.tx, out, by)
             IN  IF c.err # NilErr
                 THEN [st |-> c.st, err |-> Wrap(c.err, MsgTransactionError)]
                 ELSE [st |-> c.st, err |-> NilErr]
        ELSE [st |-> st, err |-> NilErr]

\* Rollback without the comparison with the "already finished" message: every
\* store error is reported
Rollback_NoDoneCheck(st, ctx, out, by) ==
    LET g == GetTxFromContext(ctx)
    IN  IF g.err # NilErr
        THEN [st |-> st, log |-> "rollback error", raised |-> FALSE]
        ELSE IF g.tx = NoTx
        THEN [st |-> st, log |-> "no transaction is running", raised |-> FALSE]
        ELSE LET r == StoreRollback(st, g.tx, out, by)
             IN  IF r.err # NilErr
                 THEN [st |-> r.st, log |-> "rollback error", raised |-> FALSE]
                 ELSE [st |-> r.st, log |-> "", raised |-> FALSE]

\* GormTransactor.Rollback: returns nothing; log is the line it prints and
\* raised tells whether it escalated a failure to its caller
Rollback(st, ctx, out, by) ==
    LET g == GetTxFromContext(ctx)
    IN  IF g.err # NilErr
        THEN [st |-> st, log |-> "rollback error", raised |-> FALSE]
        ELSE IF g.tx = NoTx
        THEN [st |-> st, log |-> "no transaction is running", raised |-> FALSE]
        ELSE LET r == StoreRollback(st, g.tx, out, by)
             IN  IF r.err # NilErr
                 THEN IF r.err.cause = ErrTxDone
                      THEN [st |-> r.st, log |-> "", raised |-> FALSE]
                      ELSE [st |-> r.st, log |-> "rollback error", raised |-> FALSE]
                 ELSE [st |-> r.st, log |-> "", raised |-> FALSE]

\* WithinTransaction trying Begin a second time when the first one failed
WithinTransactionEnter_Retry(st, ctx, ok) ==
    LET b == Begin(st, ctx, ok)
        b2 == Begin(st, ctx, TRUE)
    IN  IF b.err # NilErr
        THEN [st |-> b2.st, ctx |-> b2.ctx, tx |-> b2.tx, err |-> NilErr, given |-> b2.given]
        ELSE [st |-> b.st, ctx |-> b.ctx, tx |-> b.tx, err |-> NilErr, given |-> b.given]

\* the first half of WithinTransaction (both the GormTransactor method and the
\* package-level function): Begin on the context it was given, whatever that
\* context carries, then defer Rollback on the derived context
WithinTransactionEnter(st, ctx, ok) ==
    LET b == Begin(st, ctx, ok)
    IN  IF b.err # NilErr
        THEN [st |-> b.st, ctx |-> b.ctx, tx |-> b.tx, err |-> Wrap(b.err, MsgStartingTransaction),
              given |-> b.given]
        ELSE [st |-> b.st, ctx |-> b.ctx, tx |-> b.tx, err |-> NilErr, given |-> b.given]

\* the method wrapping the error of serviceFn as the package-level function does
ServiceFnError_AlwaysWrap(which, fnErr) == Wrap(fnErr, MsgExecutingService)

\* what WithinTransaction returns for an error of serviceFn: the method returns
\* it as it is, the package-level function wraps it
ServiceFnError(which, fnErr) ==
    IF which = "method" THEN fnErr ELSE Wrap(fnErr, MsgExecutingService)

\* WithinTransaction committing whatever serviceFn returned
WithinTransactionExit_CommitOnError(st, which, ctx, fnOut, fnErr, cOut, rOut, by) ==
    IF fnOut = "panic"
    THEN LET rb == Rollback(st, ctx, rOut, by)
         IN  [st |-> rb.st, mid |-> st, result |-> fnErr, rb |-> rb]
    ELSE LET cm == Commit(st, ctx, cOut, by)
             rb == Rollback(cm.st, ctx, rOut, by)
         IN  [st |-> rb.st, mid |-> cm.st,
              result |-> IF fnOut = "err" THEN ServiceFnError(which, fnErr) ELSE cm.err,
              rb |-> rb]

\* WithinTransaction with a Rollback on the error path only, in place of the
\* deferred one
WithinTransactionExit_NoDefer(st, which, ctx, fnOut, fnErr, cOut, rOut, by) ==
    LET none == [st |-> st, log |-> "", raised |-> FALSE]
    IN  IF fnOut = "panic"
        THEN [st |-> st, mid |-> st, result |-> fnErr, rb |-> none]
        ELSE IF fnOut = "err"
        THEN LET rb == Rollback(st, ctx, rOut, by)
             IN  [st |-> rb.st, mid |-> st, result |-> ServiceFnError(which, fnErr), rb |-> rb]
        ELSE LET cm == Commit(st, ctx, cOut, by)
             IN  [st |-> cm.st, mid |-> cm.st, result |-> cm.err, rb |-> none]

\* WithinTransaction recovering a panic of serviceFn into an error
WithinTransactionExit_Recover(st, which, ctx, fnOut, fnErr, cOut, rOut, by) ==
    IF fnOut = "panic"
    THEN LET rb == Rollback(st, ctx, rOut, by)
         IN  [st |-> rb.st, mid |-> st, result |-> NewErr("panic recovered", by), rb |-> rb]
    ELSE IF fnOut = "err"
    THEN LET rb == Rollback(st, ctx, rOut, by)
         IN  [st |-> rb.st, mid |-> st, result |-> ServiceFnError(which, fnErr), rb |-> rb]
    ELSE LET cm == Commit(st, ctx, cOut, by)
             rb == Rollback(cm.st, ctx, rOut, by)
         IN  [st |-> rb.st, mid |-> cm.st, result |-> cm.err, rb |-> rb]

\* WithinTransaction returning the failure of its deferred Rollback in place
\* of what it was about to return
WithinTransactionExit_RollbackErrorWins(st, which, ctx, fnOut, fnErr, cOut, rOut, by) ==
    LET cm == IF fnOut = "nil" THEN Commit(st, ctx, cOut, by) ELSE [st |-> st, err |-> NilErr]
        rb == Rollback(cm.st, ctx, rOut, by)
        res == IF fnOut = "panic" THEN fnErr
               ELSE IF fnOut = "err" THEN ServiceFnError(which, fnErr) ELSE cm.err
    IN  [st |-> rb.st, mid |-> cm.st,
         result |-> IF rb.log = "rollback error"
                    THEN Wrap(NewErr("rollback failed", 0), MsgTransactionError) ELSE res,
         rb |-> rb]

\* WithinTransaction rolling back ahead of its Commit
WithinTransactionExit_RollbackFirst(st, which, ctx, fnOut, fnErr, cOut, rOut, by) ==
    IF fnOut = "panic"
    THEN LET rb == Rollback(st, ctx, rOut, by)
         IN  [st |-> rb.st, mid |-> st, result |-> fnErr, rb |-> rb]
    ELSE IF fnOut = "err"
    THEN LET rb == Rollback(st, ctx, rOut, by)
         IN  [st |-> rb.st, mid |-> st, result |-> ServiceFnError(which, fnErr), rb |-> rb]
    ELSE LET rb == Rollback(st, ctx, rOut, by)
             cm == Commit(rb.st, ctx, cOut, by)
         IN  [st |-> cm.st, mid |-> st, result |-> cm.err, rb |-> rb]

\* WithinTransaction taking a cancellation error of serviceFn for a reason to
\* try the Commit all the same
WithinTransactionExit_CancelCommits(st, which, ctx, fnOut, fnErr, cOut, rOut, by) ==
    IF fnOut = "panic"
    THEN LET rb == Rollback(st, ctx, rOut, by)
         IN  [st |-> rb.st, mid |-> st, result |-> fnErr, rb |-> rb]
    ELSE IF fnOut = "err" /\ fnErr.cause # "context canceled"
    THEN LET rb == Rollback(st, ctx, rOut, by)
         IN  [st |-> rb.st, mid |-> st, result |-> ServiceFnError(which, fnErr), rb |-> rb]
    ELSE LET cm == Commit(st, ctx, cOut, by)
             rb == Rollback(cm.st, ctx, rOut, by)
         IN  [st |-> rb.st, mid |-> cm.st, result |-> cm.err, rb |-> rb]

\* the second half of WithinTransaction, from the return (or panic) of
\* serviceFn on: Commit when serviceFn returned nil, and in every case the
\* deferred Rollback before control goes back to the caller
WithinTransactionExit(st, which, ctx, fnOut, fnErr, cOut, rOut, by) ==
    IF fnOut = "panic"
    THEN LET rb == Rollback(st, ctx, rOut, by)
         IN  [st |-> rb.st, mid |-> st, result |-> fnErr, rb |-> rb]
    ELSE IF fnOut = "err"
    THEN LET rb == Rollback(st, ctx, rOut, by)
         IN  [st |-> rb.st, mid |-> st, result |-> ServiceFnError(which, fnErr), rb |-> rb]
    ELSE LET cm == Commit(st, ctx, cOut, by)
             rb == Rollback(cm.st, ctx, rOut, by)
         IN  [st |-> rb.st, mid |-> cm.st, result |-> cm.err, rb |-> rb]

\* ------------------------------------------------------------ repository
\* the entity type T of the repository: a record with a server-assigned id,
\* one data field and a creation time; Zero is *new(T)
Names == {"a"}
Zero == [id |-> 0, name |-> "", at |-> 0]

\* the base connection cr.db and the handle of transaction t
BaseDB == [type |-> "base", id |-> 0]

ErrRecordNotFound == "record not found"
ErrMissingWhereClause == "WHERE conditions required"
MsgZeroValue == "model cannot be zero value"
MsgEmptyModels == "inserted models cannot be empty"

\* the rows a query through handle h reads: the committed rows, and through a
\* transaction its own uncommitted changes on top of them
StoreView(st, h) ==
    IF h.type = "tx"
    THEN (st.visible \ st.txs[h.id].deletes) \cup st.txs[h.id].writes
    ELSE st.visible

\* a finished transaction answers ErrTxDone to every statement
StoreUsable(st, h) == h.type = "base" \/ st.txs[h.id].status = "open"

\* a statement through h adding the rows add and removing the rows del: at once
\* on the base connection, pending in a transaction
StoreApply(st, h, add, del) ==
    IF h.type = "tx"
    THEN [st EXCEPT !.txs[h.id].writes = (@ \ del) \cup add,
                    !.txs[h.id].deletes = @ \cup (del \cap st.visible)]
    ELSE [st EXCEPT !.visible = (@ \ del) \cup add]

MaxOf(S) == CHOOSE x \in S : \A y \in S : y <= x

\* every row of the store, committed or pending
StoreAllRows(st) ==
    st.visible \cup UNION {st.txs[t].writes : t \in 1 .. Len(st.txs)}

\* db.Create(&models): one INSERT statement for all the models; the store
\* assigns the id and the creation time a model leaves zero, and refuses the
\* whole statement on a duplicate id
StoreCreateRows(st, h, models, ok) ==
    LET n == Len(models)
        autos(i) == Cardinality({j \in 1 .. i : models[j].id = 0})
        rows == [i \in 1 .. n |->
                    [id |-> IF models[i].id = 0 THEN st.seq + autos(i) ELSE models[i].id,
                     name |-> models[i].name,
                     at |-> IF models[i].at = 0 THEN st.seq + 1 ELSE models[i].at]]
        ids == {rows[i].id : i \in 1 .. n}
        taken == {r.id : r \in StoreAllRows(st)}
        added == {rows[i] : i \in 1 .. n}
    IN  IF ~StoreUsable(st, h) THEN [st |-> st, rows |-> << >>, err |-> NewErr(ErrTxDone, 0)]
        ELSE IF ~ok THEN [st |-> st, rows |-> << >>, err |-> NewErr("store failure", 0)]
        ELSE IF Cardinality(ids) < n \/ ids \cap taken # {}
        THEN [st |-> st, rows |-> << >>, err |-> NewErr("duplicate key", 0)]
        ELSE [st |-> [StoreApply(st, h, added, {}) EXCEPT !.seq = MaxOf(ids \cup {st.seq + 1})],
              rows |-> rows, err |-> NilErr]

\* db.Where(&spec): the fields of spec that are not zero, compared for equality
Matches(r, spec) ==
    \/ spec = Zero
    \/ /\ spec.id # 0 => r.id = spec.id
       /\ spec.name # "" => r.name = spec.name
       /\ spec.at # 0 => r.at = spec.at

\* Scopes(WhereBySpec, DefaultOrder, ...).First(&model): the newest matching
\* row, the smallest id among equally new ones
StoreFirst(st, h, spec, ok) ==
    LET m == {r \in StoreView(st, h) : Matches(r, spec)}
    IN  IF ~StoreUsable(st, h) THEN [row |-> Zero, err |-> NewErr(ErrTxDone, 0)]
        ELSE IF ~ok THEN [row |-> Zero, err |-> NewErr("store failure", 0)]
        ELSE IF m = {} THEN [row |-> Zero, err |-> NewErr(ErrRecordNotFound, 0)]
        ELSE [row |-> CHOOSE r \in m :
                         \A q \in m : r.at > q.at \/ (r.at = q.at /\ r.id <= q.id),
              err |-> NilErr]

\* Scopes(WhereBySpec, DefaultOrder, ...).Find(&models): the matching rows
\* (as a set: the order DefaultOrder gives them is not modelled)
StoreFind(st, h, spec, ok) ==
    IF ~StoreUsable(st, h) THEN [rows |-> {}, err |-> NewErr(ErrTxDone, 0)]
    ELSE IF ~ok THEN [rows |-> {}, err |-> NewErr("store failure", 0)]
    ELSE [rows |-> {r \in StoreView(st, h) : Matches(r, spec)}, err |-> NilErr]

\* db.Save(&model): an insert for a model without id, otherwise the row of
\* that id replaced by the model (inserted when there is none)
StoreSave(st, h, model, ok) ==
    LET old == {r \in StoreView(st, h) : r.id = model.id}
        row == [model EXCEPT !.at = IF @ = 0 THEN st.seq + 1 ELSE @]
    IN  IF model.id = 0 THEN StoreCreateRows(st, h, <<model>>, ok)
        ELSE IF ~StoreUsable(st, h) THEN [st |-> st, rows |-> << >>, err |-> NewErr(ErrTxDone, 0)]
        ELSE IF ~ok THEN [st |-> st, rows |-> << >>, err |-> NewErr("store failure", 0)]
        ELSE IF old = {} THEN StoreCreateRows(st, h, <<model>>, ok)
        ELSE [st |-> [StoreApply(st, h, {row}, old) EXCEPT !.seq = @ + 1],
              rows |-> <<row>>, err |-> NilErr]

\* db.Unscoped().Delete(&model): deletes by primary key; gorm refuses a delete
\* without conditions, which is what a model without id asks for
StoreDelete(st, h, model, ok) ==
    IF ~StoreUsable(st, h) THEN [st |-> st, err |-> NewErr(ErrTxDone, 0)]
    ELSE IF ~ok THEN [st |-> st, err |-> NewErr("store failure", 0)]
    ELSE IF model.id = 0 THEN [st |-> st, err |-> NewErr(ErrMissingWhereClause, 0)]
    ELSE [st |-> StoreApply(st, h, {}, {r \in StoreView(st, h) : r.id = model.id}),
          err |-> NilErr]

\* checkZeroValue accepting every model
checkZeroValue_Never(model) == NilErr

\* crudRepositoryGorm.checkZeroValue: reflect.DeepEqual(model, *new(T))
checkZeroValue(model) ==
    IF model = Zero THEN NewErr(MsgZeroValue, 0) ELSE NilErr

\* GetGormInstance going to the base connection whatever the context carries
GetGormInstance_BaseOnly(ctx) == [db |-> BaseDB, err |-> NilErr]

\* crudRepositoryGorm.GetGormInstance: the transaction of ctx when it carries
\* one, cr.db.WithContext(ctx) otherwise; nothing is kept between calls
GetGormInstance(ctx) ==
    LET g == GetTxFromContext(ctx)
    IN  IF g.err # NilErr THEN [db |-> NilVal, err |-> g.err]
        ELSE IF g.tx # NoTx THEN [db |-> TxVal(g.tx), err |-> NilErr]
        ELSE [db |-> BaseDB, err |-> NilErr]

\* what a repository operation did: the store after it, the entity and the
\* list it returned, its error, the handle it went through, whether it
\* resolved a connection and how many statements it issued
Outcome(st, res, list, err, via, resolved, queries) ==
    [st |-> st, res |-> res, list |-> list, err |-> err, via |-> via,
     resolved |-> resolved, queries |-> queries]

\* crudRepositoryGorm.Insert
Insert(st, ctx, model, ok) ==
    LET z == checkZeroValue(model)
        g == GetGormInstance(ctx)
        c == StoreCreateRows(st, g.db, <<model>>, ok)
    IN  IF z # NilErr THEN Outcome(st, Zero, << >>, z, NilVal, FALSE, 0)
        ELSE IF g.err # NilErr THEN Outcome(st, Zero, << >>, g.err, NilVal, TRUE, 0)
        ELSE IF c.err # NilErr
        THEN Outcome(c.st, Zero, << >>, Wrap(c.err, "error inserting data"), g.db, TRUE, 1)
        ELSE Outcome(c.st, c.rows[1], << >>, NilErr, g.db, TRUE, 1)

\* FindFirst reading through the base connection
FindFirst_BaseConnection(st, ctx, spec, ok) ==
    LET f == StoreFirst(st, BaseDB, spec.Model, ok)
    IN  IF f.err # NilErr /\ f.err.cause # ErrRecordNotFound
        THEN Outcome(st, f.row, << >>, Wrap(f.err, "error querying data"), BaseDB, TRUE, 1)
        ELSE Outcome(st, f.row, << >>, NilErr, BaseDB, TRUE, 1)

\* FindFirst handing gorm.ErrRecordNotFound to its caller like any other error
FindFirst_NotFoundIsError(st, ctx, spec, ok) ==
    LET g == GetGormInstance(ctx)
        f == StoreFirst(st, g.db, spec.Model, ok)
    IN  IF g.err # NilErr THEN Outcome(st, Zero, << >>, g.err, NilVal, TRUE, 0)
        ELSE IF f.err # NilErr
        THEN Outcome(st, f.row, << >>, Wrap(f.err, "error querying data"), g.db, TRUE, 1)
        ELSE Outcome(st, f.row, << >>, NilErr, g.db, TRUE, 1)

\* crudRepositoryGorm.FindFirst; spec is a Specification, of which Model
\* shapes the WHERE clause
FindFirst(st, ctx, spec, ok) ==
    LET g == GetGormInstance(ctx)
        f == StoreFirst(st, g.db, spec.Model, ok)
    IN  IF g.err # NilErr THEN Outcome(st, Zero, << >>, g.err, NilVal, TRUE, 0)
        ELSE IF f.err # NilErr
        THEN IF f.err.cause = ErrRecordNotFound
             THEN Outcome(st, f.row, << >>, NilErr, g.db, TRUE, 1)
             ELSE Outcome(st, f.row, << >>, Wrap(f.err, "error querying data"), g.db, TRUE, 1)
        ELSE Outcome(st, f.row, << >>, NilErr, g.db, TRUE, 1)

\* crudRepositoryGorm.FindAll; rows is the set of the entities it returns
FindAll(st, ctx, spec, ok) ==
    LET g == GetGormInstance(ctx)
        f == StoreFind(st, g.db, spec.Model, ok)
    IN  IF g.err # NilErr THEN [rows |-> {}, err |-> g.err, via |-> NilVal]
        ELSE IF f.err # NilErr
        THEN [rows |-> {}, err |-> Wrap(f.err, "error querying data"), via |-> g.db]
        ELSE [rows |-> f.rows, err |-> NilErr, via |-> g.db]

\* crudRepositoryGorm.Update
Update(st, ctx, model, ok) ==
    LET z == checkZeroValue(model)
        g == GetGormInstance(ctx)
        c == StoreSave(st, g.db, model, ok)
    IN  IF z # NilErr THEN Outcome(st, Zero, << >>, z, NilVal, FALSE, 0)
        ELSE IF g.err # NilErr THEN Outcome(st, Zero, << >>, g.err, NilVal, TRUE, 0)
        ELSE IF c.err # NilErr
        THEN Outcome(c.st, Zero, << >>, Wrap(c.err, "error updating data"), g.db, TRUE, 1)
        ELSE Outcome(c.st, c.rows[1], << >>, NilErr, g.db, TRUE, 1)

\* crudRepositoryGorm.Delete
Delete(st, ctx, model, ok) ==
    LET z == checkZeroValue(model)
        g == GetGormInstance(ctx)
        c == StoreDelete(st, g.db, model, ok)
    IN  IF z # NilErr THEN Outcome(st, Zero, << >>, z, NilVal, FALSE, 0)
        ELSE IF g.err # NilErr THEN Outcome(st, Zero, << >>, g.err, NilVal, TRUE, 0)
        ELSE IF c.err # NilErr
        THEN Outcome(c.st, Zero, << >>, Wrap(c.err, "error deleting data"), g.db, TRUE, 1)
        ELSE Outcome(c.st, Zero, << >>, NilErr, g.db, TRUE, 1)

\* BatchInsert taking an empty list for nothing to do
BatchInsert_EmptyIsNoOp(st, ctx, models, ok) ==
    LET g == GetGormInstance(ctx)
        c == StoreCreateRows(st, g.db, models, ok)
    IN  IF Len(models) < 1 THEN Outcome(st, Zero, << >>, NilErr, NilVal, FALSE, 0)
        ELSE IF g.err # NilErr THEN Outcome(st, Zero, << >>, g.err, NilVal, TRUE, 0)
        ELSE IF c.err # NilErr
        THEN Outcome(c.st, Zero, << >>, Wrap(c.err, "error batch inserting data"), g.db, TRUE, 1)
        ELSE Outcome(c.st, Zero, c.rows, NilErr, g.db, TRUE, 1)

\* crudRepositoryGorm.BatchInsert; a nil slice and an empty one both have
\* length 0
BatchInsert(st, ctx, models, ok) ==
    LET g == GetGormInstance(ctx)
        c == StoreCreateRows(st, g.db, models, ok)
    IN  IF Len(models) < 1
        THEN Outcome(st, Zero, << >>, NewErr(MsgEmptyModels, 0), NilVal, FALSE, 0)
        ELSE IF g.err # NilErr THEN Outcome(st, Zero, << >>, g.err, NilVal, TRUE, 0)
        ELSE IF c.err # NilErr
        THEN Outcome(c.st, Zero, << >>, Wrap(c.err, "error batch inserting data"), g.db, TRUE, 1)
        ELSE Outcome(c.st, Zero, c.rows, NilErr, g.db, TRUE, 1)

\* ----------------------------------------------------------------- utils
\* the Go int: two's complement, arithmetic wraps around
MinInt == -(2 ^ (IntBits - 1))
MaxInt == 2 ^ (IntBits - 1) - 1
Ints == MinInt .. MaxInt
WrapInt(x) == ((x - MinInt) % (2 ^ IntBits)) + MinInt

\* the statement a scope builds on: LIMIT and OFFSET (empty while unset), the
\* ORDER BY clauses and the errors added to the query
NoStatement == [limit |-> << >>, offset |-> << >>, order |-> << >>, errors |-> << >>]

\* Paginate computing the offset from the page as given
Paginate_NoClamp(page, limit, stmt) ==
    [stmt EXCEPT !.limit = <<limit>>, !.offset = <<WrapInt(WrapInt(page - 1) * limit)>>]

\* Paginate(page, limit) applied to stmt
Paginate(page, limit, stmt) ==
    LET pg == IF page < 1 THEN 1 ELSE page
        offset == WrapInt((pg - 1) * limit)
    IN  [stmt EXCEPT !.limit = <<limit>>, !.offset = <<offset>>]

\* internal.IsValidFieldName; a field name is the sequence of its code points
IsValidFieldName(field) ==
    /\ \A i \in 1 .. Len(field) :
          LET char == field[i]
          IN  \/ (char >= 97 /\ char <= 122)
              \/ (char >= 65 /\ char <= 90)
              \/ (char >= 48 /\ char <= 57)
              \/ char = 95
              \/ char = 46
    /\ Len(field) > 0

\* the code points of " ASC" and " DESC"
Asc == <<32, 65, 83, 67>>
Desc == <<32, 68, 69, 83, 67>>

\* OrderBy putting every field name into the clause
OrderBy_Unchecked(field, ascending, stmt) ==
    IF ascending
    THEN [stmt EXCEPT !.order = Append(@, field \o Asc)]
    ELSE [stmt EXCEPT !.order = Append(@, field \o Desc)]

\* OrderBy(field, ascending) applied to stmt
OrderBy(field, ascending, stmt) ==
    IF ~IsValidFieldName(field)
    THEN [stmt EXCEPT !.errors = Append(@, [msg |-> "invalid field name: %s", arg |-> field])]
    ELSE IF ascending
    THEN [stmt EXCEPT !.order = Append(@, field \o Asc)]
    ELSE [stmt EXCEPT !.order = Append(@, field \o Desc)]

\* time.Time: an instant (seconds since January 1, year 1, 00:00:00 UTC) and a
\* location; IsZero looks at the instant only
IsZero(t) == t.sec = 0

\* GetTimeRangeClause answering for a start after the end with the two swapped
GetTimeRangeClause_Sorted(timeCol, start, end) ==
    IF IsZero(start) /\ IsZero(end) THEN [clause |-> "", args |-> << >>, nilArgs |-> TRUE]
    ELSE IF IsZero(start)
    THEN [clause |-> timeCol \o " <= ?", args |-> <<end>>, nilArgs |-> FALSE]
    ELSE IF IsZero(end)
    THEN [clause |-> timeCol \o " >= ?", args |-> <<start>>, nilArgs |-> FALSE]
    ELSE [clause |-> timeCol \o " BETWEEN ? AND ?",
          args |-> IF start.sec > end.sec THEN <<end, start>> ELSE <<start, end>>,
          nilArgs |-> FALSE]

\* GetTimeRangeClause: the clause, its arguments, and whether the argument
\* slice is nil
GetTimeRangeClause(timeCol, start, end) ==
    IF IsZero(start) /\ IsZero(end) THEN [clause |-> "", args |-> << >>, nilArgs |-> TRUE]
    ELSE IF IsZero(start)
    THEN [clause |-> timeCol \o " <= ?", args |-> <<end>>, nilArgs |-> FALSE]
    ELSE IF IsZero(end)
    THEN [clause |-> timeCol \o " >= ?", args |-> <<start>>, nilArgs |-> FALSE]
    ELSE [clause |-> timeCol \o " BETWEEN ? AND ?", args |-> <<start, end>>, nilArgs |-> FALSE]

\* one line of what Job.Run does: a call of the logger or of a function of the job
Did(what, text) == [what |-> what, text |-> text]

\* Job.Run; j.setupFunc and j.cleanupFunc are "none" (nil), "ok" or "err" (what
\* they return), j.runFunc "ok" or "err", and j.fatalExits tells whether Fatalf of
\* the logger ends the process (internal.SimpleLogger) or returns (the Logger
\* interface asks for neither).  The result is what happened, in order.
Run(j) ==
    LET setup ==
            IF j.setupFunc = "none" THEN << >>
            ELSE <<Did("Info", "setting up job..."), Did("call", "setupFunc")>>
                    \o (IF j.setupFunc = "err"
                        THEN <<Did("Fatalf", "error setting up job: setup failed")>> ELSE << >>)
        run ==
            <<Did("Info", "running job..."), Did("call", "runFunc")>>
                \o (IF j.runFunc = "err"
                    THEN <<Did("Fatalf", "error running job: run failed")>> ELSE << >>)
        cleanup ==
            <<Did("Infof", "success running job for %d ms")>>
                \o (IF j.cleanupFunc = "none" THEN << >>
                    ELSE <<Did("Info", "cleaning up job..."), Did("call", "cleanupFunc")>>
                            \o (IF j.cleanupFunc = "err"
                                THEN <<Did("Fatalf", "error cleaning up job: cleanup failed")>>
                                ELSE << >>))
    IN  IF j.setupFunc = "err" /\ j.fatalExits THEN setup
        ELSE IF j.runFunc = "err" /\ j.fatalExits THEN setup \o run
        ELSE setup \o run \o cleanup

\* ----------------------------------------------------------------- state
VARIABLES
    api,           \* which WithinTransaction the program calls: the GormTransactor
                   \* "method" or the package-level "func"
    db,            \* the store: transactions and committed rows
    stack,         \* per goroutine: the calls in progress, outermost first
    ret,           \* the call that returned in the last step, NoCall otherwise
    nCalls,        \* calls made so far: WithinTransaction and direct Commit / Rollback
    nFaults,       \* store failures so far
    inv,           \* the Commit / Rollback invocation that ended the last step
    repoOp,        \* the repository call made in the last step, NoOp otherwise
    util           \* the scope, clause or job call made in the last step

vars == <<api, db, stack, ret, nCalls, nFaults, inv, repoOp, util>>

NoCall ==
    [id |-> 0, proc |-> 0, depth |-> 0, ctxIn |-> Background, ctx |-> Background, tx |-> NoTx,
     pending |-> FALSE, nested |-> NoResult, wrote |-> FALSE, rolled |-> FALSE, rows |-> {},
     fnOut |-> "none", fnErr |-> NoResult, result |-> NoResult, ops |-> << >>]

NoInvocation ==
    [op |-> "none", by |-> 0, ctx |-> Background, tx |-> NoTx, before |-> "none", after |-> "none",
     changed |-> FALSE, visChanged |-> FALSE, err |-> NoResult, raised |-> FALSE, log |-> ""]

\* the successful Insert a FindFirst follows up, when there is one
NoInsert == [arg |-> Zero, res |-> Zero]

NoOp ==
    [name |-> "none", by |-> 0, ctx |-> Background, arg |-> Zero, args |-> << >>,
     res |-> Zero, list |-> << >>, rows |-> {}, err |-> NoResult, via |-> NilVal,
     resolved |-> FALSE, queries |-> 0, changed |-> FALSE, follows |-> NoInsert]

NoUtil == [fn |-> "none"]

StatusOf(st, t) == IF t = NoTx THEN "none" ELSE st.txs[t].status

\* a record of one Commit or Rollback invocation on ctx that took st to st2
Invocation(op, by, ctx, st, st2, err, raised, log) ==
    LET t == GetTxFromContext(ctx).tx
    IN  [op |-> op, by |-> by, ctx |-> ctx, tx |-> t, before |-> StatusOf(st, t), after |-> StatusOf(st2, t),
         changed |-> st2 # st, visChanged |-> st2.visible # st.visible,
         err |-> err, raised |-> raised, log |-> log]

Init ==
    /\ api \in {"method", "func"}
    /\ db = [txs |-> << >>, visible |-> {}, seq |-> 0]
    /\ stack = [p \in Procs |-> << >>]
    /\ ret = NoCall
    /\ nCalls = 0
    /\ nFaults = 0
    /\ inv = NoInvocation
    /\ repoOp = NoOp
    /\ util = NoUtil

\* the contexts top-level code starts from
BaseCtxs == {Background}

\* goroutines are interchangeable: new top-level work goes to the first idle one
Idle(p) == stack[p] = << >>
MayStart(p) == Idle(p) /\ \A q \in Procs : q < p => ~Idle(q)

Top(p) == stack[p][Len(stack[p])]
Running(p) == stack[p] # << >> /\ ~Top(p).pending

\* the store may fail while the fault budget lasts
BeginOuts == IF nFaults < MaxFaults THEN {TRUE, FALSE} ELSE {TRUE}
CommitOuts == IF nFaults < MaxFaults THEN {"ok", "err", "errOpen"} ELSE {"ok"}
RollbackOuts == IF nFaults < MaxFaults THEN {"ok", "err"} ELSE {"ok"}
Faults(st, st2) ==
    Cardinality({t \in 1 .. Len(st.txs) :
                    /\ Len(st2.txs[t].ops) > Len(st.txs[t].ops)
                    /\ \E i \in (Len(st.txs[t].ops) + 1) .. Len(st2.txs[t].ops) :
                          st2.txs[t].ops[i].res \in {"err", "errOpen"}})

\* the stack of the caller after a call of its serviceFn returned r with rows
Deliver(stk, r, rows) ==
    IF stk = << >> THEN stk
    ELSE [stk EXCEPT ![Len(stk)].nested = r,
                     ![Len(stk)].pending = (r.kind = "panic"),
                     ![Len(stk)].rows = @ \cup rows]

\* a caller (top-level code with a context it holds, or a running serviceFn
\* with the context it was given) calls WithinTransaction
Call(p) ==
    /\ nCalls < MaxCalls
    /\ Len(stack[p]) < MaxDepth
    /\ IF Idle(p) THEN MayStart(p) ELSE Running(p)
    /\ \E ok \in BeginOuts :
       \E ctx \in (IF stack[p] = << >> THEN BaseCtxs ELSE {Top(p).ctx}) :
          LET e == WithinTransactionEnter(db, ctx, ok)
              rec == [NoCall EXCEPT !.id = nCalls + 1, !.proc = p, !.depth = Len(stack[p]) + 1,
                                    !.ctxIn = e.given, !.ctx = e.ctx, !.tx = e.tx,
                                    !.result = IF e.err = NilErr THEN NoResult ELSE e.err]
          IN  /\ db' = e.st
              /\ nFaults' = IF ok THEN nFaults ELSE nFaults + 1
              /\ IF e.err = NilErr
                 THEN /\ stack' = [stack EXCEPT ![p] = Append(@, rec)]
                      /\ ret' = NoCall
                 ELSE /\ stack' = [stack EXCEPT ![p] = Deliver(@, e.err, {})]
                      /\ ret' = rec
    /\ nCalls' = nCalls + 1
    /\ inv' = NoInvocation
    /\ UNCHANGED <<util, api>>
    /\ repoOp' = NoOp

\* serviceFn creates a row through the transaction of its context
FnWrite(p) ==
    /\ Running(p)
    /\ ~Top(p).wrote
    /\ LET f == Top(p)
           g == GetTxFromContext(f.ctx)
       IN  /\ g.err = NilErr /\ g.tx # NoTx
           /\ StatusOf(db, g.tx) = "open"
           /\ db' = StoreCreate(db, g.tx, f.id)
           /\ stack' = [stack EXCEPT ![p][Len(stack[p])].wrote = TRUE,
                                     ![p][Len(stack[p])].rows = @ \cup {f.id}]
    /\ ret' = NoCall
    /\ inv' = NoInvocation
    /\ UNCHANGED <<util, api, nCalls, nFaults>>
    /\ repoOp' = NoOp

\* the operations issued on the transaction of a call are kept until the call
\* returns; they go to its record in ret then
Forget(st, t) == IF t = NoTx THEN st ELSE [st EXCEPT !.txs[t].ops = << >>]
OpsOf(st, t) == IF t = NoTx THEN << >> ELSE st.txs[t].ops

\* the answers the store can give to a Commit / Rollback on ctx: they differ
\* only while the transaction of ctx is open
CommitChoices(ctx, used) ==
    IF used /\ StatusOf(db, GetTxFromContext(ctx).tx) = "open" THEN CommitOuts ELSE {"ok"}
RollbackChoices(ctx, used) ==
    IF used /\ StatusOf(db, GetTxFromContext(ctx).tx) = "open" THEN RollbackOuts ELSE {"ok"}

\* serviceFn ends with fnOut and WithinTransaction runs to its return
Finish(p, fnOut, fnErr) ==
    \E cOut \in CommitChoices(Top(p).ctx, fnOut = "nil") :
    \E rOut \in RollbackChoices(Top(p).ctx, fnOut # "nil" \/ cOut = "errOpen") :
    \E x \in {WithinTransactionExit(db, api, Top(p).ctx, fnOut, fnErr, cOut, rOut, Top(p).id)} :
       LET f == Top(p)
           rest == SubSeq(stack[p], 1, Len(stack[p]) - 1)
           faults == Faults(db, x.st)
       IN  /\ faults + nFaults <= MaxFaults
           /\ db' = Forget(x.st, f.tx)
           /\ nFaults' = nFaults + faults
           /\ stack' = [stack EXCEPT ![p] = Deliver(rest, x.result, f.rows)]
           /\ ret' = [f EXCEPT !.fnOut = fnOut, !.fnErr = fnErr, !.result = x.result,
                              !.ops = OpsOf(x.st, f.tx),
                              !.nested = NoResult, !.pending = FALSE]
           /\ inv' = Invocation("rollback", f.id, f.ctx, x.mid, x.st, NilErr, x.rb.raised, x.rb.log)
           /\ UNCHANGED <<util, api, nCalls>>
           /\ repoOp' = NoOp

\* serviceFn returns nil (whatever a nested call answered)
FnReturnNil(p) ==
    /\ Running(p)
    /\ Finish(p, "nil", NilErr)

\* serviceFn returns an error: one of its own, or the one a nested call returned
FnReturnErr(p) ==
    /\ Running(p)
    /\ \E e \in {NewErr("service error", Top(p).id)}
                \cup (IF Top(p).nested.kind = "err" THEN {Top(p).nested} ELSE {}) :
          Finish(p, "err", e)

\* the context of the call is cancelled while serviceFn runs: the statement
\* serviceFn has in flight fails with the cancellation error and serviceFn
\* returns it; the store may have closed the transaction by then, or not yet
FnCancelled(p) ==
    /\ Running(p)
    /\ nFaults < MaxFaults
    /\ StatusOf(db, Top(p).tx) = "open"
    /\ \E closed \in BOOLEAN :
       \E rOut \in (IF ~closed /\ nFaults + 1 < MaxFaults THEN {"ok", "err"} ELSE {"ok"}) :
          LET f == Top(p)
              rest == SubSeq(stack[p], 1, Len(stack[p]) - 1)
              e == NewErr("context canceled", 0)
              st1 == IF closed THEN StoreCancel(db, f.tx, f.id) ELSE db
              x == WithinTransactionExit(st1, api, f.ctx, "err", e, "ok", rOut, f.id)
          IN  /\ db' = Forget(x.st, f.tx)
              /\ nFaults' = nFaults + 1 + Faults(st1, x.st)
              /\ stack' = [stack EXCEPT ![p] = Deliver(rest, x.result, f.rows)]
              /\ ret' = [f EXCEPT !.fnOut = "err", !.fnErr = e, !.result = x.result,
                                 !.ops = OpsOf(x.st, f.tx),
                                 !.nested = NoResult, !.pending = FALSE]
              /\ inv' = Invocation("rollback", f.id, f.ctx, st1, x.st, NilErr, x.rb.raised, x.rb.log)
    /\ UNCHANGED <<util, api, nCalls>>
    /\ repoOp' = NoOp

\* serviceFn panics, or a panic of a nested call passes through it
FnPanic(p) ==
    /\ stack[p] # << >>
    /\ Finish(p, "panic", IF Top(p).pending THEN Top(p).nested ELSE PanicVal(Top(p).id))

\* serviceFn calls Transactor.Rollback itself on the context it was given,
\* ahead of the deferred Rollback of WithinTransaction
FnRollback(p) ==
    /\ Running(p)
    /\ ~Top(p).rolled
    /\ \E out \in RollbackChoices(Top(p).ctx, TRUE) :
          LET f == Top(p)
              r == Rollback(db, f.ctx, out, f.id)
          IN  /\ Faults(db, r.st) + nFaults <= MaxFaults
              /\ db' = r.st
              /\ nFaults' = nFaults + Faults(db, r.st)
              /\ inv' = Invocation("rollback", f.id, f.ctx, db, r.st, NilErr, r.raised, r.log)
    /\ stack' = [stack EXCEPT ![p][Len(stack[p])].rolled = TRUE]
    /\ ret' = NoCall
    /\ UNCHANGED <<util, api, nCalls>>
    /\ repoOp' = NoOp

\* top-level code calls Transactor.Commit on a context without a unit of work
DirectCommit(p) ==
    /\ nCalls < MaxCalls
    /\ MayStart(p)
    /\ \E ctx \in BaseCtxs : \E out \in CommitChoices(ctx, TRUE) :
          LET c == Commit(db, ctx, out, 0)
          IN  /\ Faults(db, c.st) + nFaults <= MaxFaults
              /\ db' = c.st
              /\ nFaults' = nFaults + Faults(db, c.st)
              /\ inv' = Invocation("commit", 0, ctx, db, c.st, c.err, FALSE, "")
    /\ nCalls' = nCalls + 1
    /\ ret' = NoCall
    /\ UNCHANGED <<util, api, stack>>
    /\ repoOp' = NoOp

\* top-level code calls Transactor.Rollback on a context without a unit of work
DirectRollback(p) ==
    /\ nCalls < MaxCalls
    /\ MayStart(p)
    /\ \E ctx \in BaseCtxs : \E out \in RollbackChoices(ctx, TRUE) :
          LET r == Rollback(db, ctx, out, 0)
          IN  /\ Faults(db, r.st) + nFaults <= MaxFaults
              /\ db' = r.st
              /\ nFaults' = nFaults + Faults(db, r.st)
              /\ inv' = Invocation("rollback", 0, ctx, db, r.st, NilErr, r.raised, r.log)
    /\ nCalls' = nCalls + 1
    /\ ret' = NoCall
    /\ UNCHANGED <<util, api, stack>>
    /\ repoOp' = NoOp

\* serviceFn reads back the rows of the store through the repository, on the
\* context it was given: FindAll with an empty Specification
FnFind(p) ==
    /\ Running(p)
    /\ \E i \in 1 .. Len(stack[p]) : stack[p][i].rows # {}
    /\ LET f == Top(p)
           r == FindAll(db, f.ctx, [Model |-> Zero], TRUE)
       IN  repoOp' = [NoOp EXCEPT !.name = "findAll", !.by = f.id, !.ctx = f.ctx,
                                  !.rows = r.rows, !.err = r.err, !.via = r.via,
                                  !.resolved = TRUE, !.queries = 1]
    /\ ret' = NoCall
    /\ inv' = NoInvocation
    /\ UNCHANGED <<util, api, db, stack, nCalls, nFaults>>

\* --------------------------------------------- callers of the repository
\* the context Begin(context.Background()) returned for transaction t, and a
\* context in which other code put a value that is no *gorm.DB under the key
TxCtx(t) == WithValue(Background, ContextKeyGormTx, TxVal(t))
BadCtx == WithValue(Background, ContextKeyGormTx, [type |-> "other", id |-> 0])

\* a context in which unrelated code put the handle of transaction t under
\* the plain string key
PlainCtx(t) == WithValue(Background, PlainKey, TxVal(t))

\* the contexts a caller of the repository may hold, the entities it may
\* pass, the lists of them, and the examples it may look up: an entity of its
\* own making or the one the Insert of the step before returned
RepoCtxs ==
    {Background, BadCtx}
        \cup {TxCtx(t) : t \in 1 .. Len(db.txs)}
        \cup {PlainCtx(t) : t \in {u \in 1 .. Len(db.txs) : db.txs[u].status = "open"}}
NewEntities == {[id |-> i, name |-> n, at |-> 0] : i \in 0 .. 1, n \in Names \cup {""}}
Examples ==
    NewEntities \cup (IF repoOp.name = "insert" /\ repoOp.err = NilErr THEN {repoOp.res} ELSE {})
EntityLists == {<< >>} \cup {<<e>> : e \in NewEntities} \cup {<<e, e>> : e \in NewEntities}

RepoEvent(name, ctx, arg, args, r, follows) ==
    [name |-> name, by |-> 0, ctx |-> ctx, arg |-> arg, args |-> args,
     res |-> r.res, list |-> r.list, rows |-> {}, err |-> r.err, via |-> r.via,
     resolved |-> r.resolved, queries |-> r.queries, changed |-> r.st # db,
     follows |-> follows]

\* the store may fail a query that reaches it
StoreFails(ok, r) == ~ok => (r.err.kind = "err" /\ r.err.cause = "store failure")

\* a caller that holds no open transaction starts one with Transactor.Begin
\* and keeps the context
CallerBegin ==
    /\ Len(db.txs) < MaxTxs
    /\ \A t \in 1 .. Len(db.txs) : StatusOf(db, t) # "open"
    /\ db' = Begin(db, Background, TRUE).st
    /\ repoOp' = NoOp
    /\ UNCHANGED <<util, api, stack, ret, inv, nCalls, nFaults>>

\* while transaction t is open a caller calls Transactor.Commit: on the
\* context it kept, or on one that has the handle under the plain string key
CallerCommit(t) ==
    /\ StatusOf(db, t) = "open"
    /\ \E ctx \in {TxCtx(t), PlainCtx(t)} :
          LET c == Commit(db, ctx, "ok", 0)
          IN  /\ db' = c.st
              /\ repoOp' = [NoOp EXCEPT !.name = "commit", !.ctx = ctx, !.err = c.err,
                                        !.changed = c.st # db]
    /\ UNCHANGED <<util, api, stack, ret, inv, nCalls, nFaults>>

\* the same with Transactor.Rollback
CallerRollback(t) ==
    /\ StatusOf(db, t) = "open"
    /\ \E ctx \in {TxCtx(t), PlainCtx(t)} :
          LET r == Rollback(db, ctx, "ok", 0)
          IN  /\ db' = r.st
              /\ repoOp' = [NoOp EXCEPT !.name = "rollback", !.ctx = ctx, !.err = NilErr,
                                        !.changed = r.st # db]
    /\ UNCHANGED <<util, api, stack, ret, inv, nCalls, nFaults>>

\* a caller asks GetTxFromContext for the transaction of a context
RepoGetTx ==
    /\ \E ctx \in RepoCtxs :
          LET g == GetTxFromContext(ctx)
          IN  repoOp' = [NoOp EXCEPT !.name = "getTx", !.ctx = ctx, !.err = g.err,
                                    !.via = IF g.tx # NoTx THEN TxVal(g.tx) ELSE NilVal]
    /\ UNCHANGED <<util, api, db, stack, ret, inv, nCalls, nFaults>>

RepoInsert ==
    /\ db.seq < MaxRows
    /\ \E ctx \in RepoCtxs : \E model \in NewEntities :
          LET r == Insert(db, ctx, model, TRUE)
          IN  /\ db' = r.st
              /\ repoOp' = RepoEvent("insert", ctx, model, << >>, r, NoInsert)
    /\ UNCHANGED <<util, api, stack, ret, inv, nCalls, nFaults>>

\* FindFirst; when it looks up, on the same context, the entity the Insert of
\* the step before returned, the call records that Insert
RepoFindFirst ==
    /\ \E ctx \in RepoCtxs : \E model \in Examples : \E ok \in {TRUE, FALSE} :
          LET r == FindFirst(db, ctx, [Model |-> model], ok)
              follows == IF /\ repoOp.name = "insert" /\ repoOp.err = NilErr
                            /\ repoOp.ctx = ctx /\ repoOp.res = model
                         THEN [arg |-> repoOp.arg, res |-> repoOp.res]
                         ELSE NoInsert
          IN  /\ StoreFails(ok, r)
              /\ db' = r.st
              /\ repoOp' = RepoEvent("findFirst", ctx, model, << >>, r, follows)
    /\ UNCHANGED <<util, api, stack, ret, inv, nCalls, nFaults>>

RepoUpdate ==
    /\ db.seq < MaxRows
    /\ \E ctx \in RepoCtxs : \E model \in NewEntities :
          LET r == Update(db, ctx, model, TRUE)
          IN  /\ db' = r.st
              /\ repoOp' = RepoEvent("update", ctx, model, << >>, r, NoInsert)
    /\ UNCHANGED <<util, api, stack, ret, inv, nCalls, nFaults>>

RepoDelete ==
    /\ \E ctx \in RepoCtxs : \E model \in NewEntities :
          LET r == Delete(db, ctx, model, TRUE)
          IN  /\ db' = r.st
              /\ repoOp' = RepoEvent("delete", ctx, model, << >>, r, NoInsert)
    /\ UNCHANGED <<util, api, stack, ret, inv, nCalls, nFaults>>

RepoBatchInsert ==
    /\ db.seq < MaxRows
    /\ \E ctx \in RepoCtxs : \E models \in EntityLists :
          LET r == BatchInsert(db, ctx, models, TRUE)
          IN  /\ db' = r.st
              /\ repoOp' = RepoEvent("batchInsert", ctx, Zero, models, r, NoInsert)
    /\ UNCHANGED <<util, api, stack, ret, inv, nCalls, nFaults>>

RepoNext ==
    \/ CallerBegin
    \/ \E t \in 1 .. Len(db.txs) : CallerCommit(t)
    \/ \E t \in 1 .. Len(db.txs) : CallerRollback(t)
    \/ RepoInsert
    \/ RepoFindFirst
    \/ RepoUpdate
    \/ RepoDelete
    \/ RepoBatchInsert
    \/ RepoGetTx

\* the repository does not depend on which WithinTransaction the program uses
RepoInit == Init /\ api = "method"

RepoSpec == RepoInit /\ [][RepoNext]_vars

\* ------------------------------------- callers of the scopes and utilities
\* the code points a field name is made of: letters, digits, underscore and
\* dot, and the characters next to their ranges, a blank, a semicolon and one
\* outside ASCII
FieldChars == {97, 122, 65, 90, 48, 57, 95, 46, 96, 123, 64, 91, 47, 58, 32, 59, 233}

RECURSIVE SeqsUpTo(_, _)
SeqsUpTo(S, n) ==
    IF n = 0 THEN {<< >>}
    ELSE LET shorter == SeqsUpTo(S, n - 1)
         IN  shorter \cup {Append(q, c) : q \in shorter, c \in S}

FieldNames == SeqsUpTo(FieldChars, MaxFieldLen)
Times == {[sec |-> n, loc |-> l] : n \in 0 .. MaxTime, l \in {"UTC", "Local"}}
TimeCols == {"created_at", ""}
Jobs ==
    [setupFunc : {"none", "ok", "err"}, runFunc : {"ok", "err"},
     cleanupFunc : {"none", "ok", "err"}, fatalExits : BOOLEAN]

Others == <<api, db, stack, ret, nCalls, nFaults, inv, repoOp>>

\* each run makes one call: the functions keep nothing between calls
\* db.Scopes(Paginate(page, limit))
ScopePaginate ==
    /\ util = NoUtil
    /\ \E page \in Ints : \E limit \in Ints :
          util' = [fn |-> "Paginate", page |-> page, limit |-> limit,
                   stmt |-> Paginate(page, limit, NoStatement)]
    /\ UNCHANGED Others

\* db.Scopes(OrderBy(field, ascending))
ScopeOrderBy ==
    /\ util = NoUtil
    /\ \E field \in FieldNames : \E ascending \in BOOLEAN :
          util' = [fn |-> "OrderBy", field |-> field, ascending |-> ascending,
                   stmt |-> OrderBy(field, ascending, NoStatement)]
    /\ UNCHANGED Others

\* GetTimeRangeClause(timeCol, start, end)
CallGetTimeRangeClause ==
    /\ util = NoUtil
    /\ \E timeCol \in TimeCols : \E start \in Times : \E end \in Times :
          util' = [fn |-> "GetTimeRangeClause", timeCol |-> timeCol, start |-> start,
                   end |-> end, res |-> GetTimeRangeClause(timeCol, start, end)]
    /\ UNCHANGED Others

\* job.Run()
JobRun ==
    /\ util = NoUtil
    /\ \E j \in Jobs : util' = [fn |-> "Run", job |-> j, did |-> Run(j)]
    /\ UNCHANGED Others

UtilNext ==
    \/ ScopePaginate
    \/ ScopeOrderBy
    \/ CallGetTimeRangeClause
    \/ JobRun

UtilInit == Init /\ api = "method"

UtilSpec == UtilInit /\ [][UtilNext]_vars

Next ==
    \E p \in Procs :
       \/ Call(p)
       \/ FnWrite(p)
       \/ FnReturnNil(p)
       \/ FnReturnErr(p)
       \/ FnPanic(p)
       \/ FnCancelled(p)
       \/ FnRollback(p)
       \/ DirectCommit(p)
       \/ DirectRollback(p)
       \/ FnFind(p)

Spec == Init /\ [][Next]_vars

\* ------------------------------------------------------------ type check
TypeOK ==
    /\ \A t \in 1 .. Len(db.txs) : db.txs[t].status \in {"open", "committed", "rolledback"}
    /\ nCalls \in 0 .. MaxCalls
    /\ nFaults \in 0 .. MaxFaults

\* ================================================================ claims
Frames == UNION {{stack[p][i] : i \in 1 .. Len(stack[p])} : p \in Procs}
Returned == ret.id # 0
CarriesTx(ctx) == GetTxFromContext(ctx).tx # NoTx
Effective(ops) == {i \in 1 .. Len(ops) : ops[i].res \in {"ok", "err"}}
Issued(ops, op) == \E i \in 1 .. Len(ops) : ops[i].op = op
OwnedTxs == {f.tx : f \in Frames}

\* C1: a WithinTransaction call whose context already carries a transaction
\* is a pass-through: it begins no transaction, runs serviceFn on the
\* context it was given and issues no Commit or Rollback.
C1_NestedIsPassThrough ==
    /\ \A f \in Frames : CarriesTx(f.ctxIn) => f.tx = NoTx /\ f.ctx = f.ctxIn
    /\ Returned /\ CarriesTx(ret.ctxIn) =>
          /\ ret.tx = NoTx
          /\ ~Issued(ret.ops, "commit")

\* C2: in a chain of WithinTransaction calls started from a context without
\* a transaction at most one transaction of the chain is open, and every
\* nested serviceFn gets the context the outermost serviceFn got.
C2_OneTransactionPerChain ==
    \A p \in Procs :
       (stack[p] # << >> /\ ~CarriesTx(stack[p][1].ctxIn)) =>
          /\ Cardinality({i \in 1 .. Len(stack[p]) :
                             StatusOf(db, stack[p][i].tx) = "open"}) <= 1
          /\ \A i \in 1 .. Len(stack[p]) : stack[p][i].ctx = stack[p][1].ctx

\* C3: a unit of work is all-or-nothing at any depth: when the outermost
\* WithinTransaction returns nil every row written at any level is visible,
\* and when it returns an error none is.
C3_AllOrNothing ==
    (Returned /\ ret.depth = 1) =>
       /\ ret.result.kind = "nil" => ret.rows \subseteq db.visible
       /\ ret.result.kind = "err" => ret.rows \cap db.visible = {}

\* C4: when the serviceFn of a top-level WithinTransaction wrote rows through
\* the transaction of its context and returned an error, Commit was never
\* called on that transaction, the transaction was rolled back and none of the
\* rows is visible.
C4_FailedUnitLeavesNoRows ==
    (Returned /\ ret.depth = 1 /\ ret.fnOut = "err") =>
       /\ ~Issued(ret.ops, "commit")
       /\ StatusOf(db, ret.tx) = "rolledback"
       /\ ret.id \notin db.visible

C4_Witness ==
    /\ Returned /\ ret.depth = 1 /\ ret.fnOut = "err"
    /\ ret.wrote /\ ~ret.rolled
    /\ Len(ret.ops) = 1 /\ ret.ops[1].op = "rollback" /\ ret.ops[1].res = "ok"

\* C5: nested WithinTransaction calls share exactly one transaction, so when
\* the inner call fails and the outer serviceFn returns that failure, the rows
\* of the outer serviceFn are rolled back together with the inner rows.
C5_NestedSharesOneTransaction ==
    /\ \A p \in Procs : \A i \in 1 .. Len(stack[p]) :
          GetTxFromContext(stack[p][i].ctx).tx = GetTxFromContext(stack[p][1].ctx).tx
    /\ (Returned /\ ret.depth = 1 /\ ret.fnOut = "err" /\ ret.fnErr.at # ret.id) =>
          ret.rows \cap db.visible = {}

\* C6: every transaction a WithinTransaction call began is finished by exactly
\* one Commit or Rollback before the call returns: none is open once its call
\* has returned, on any path, and none is finished twice.
C6_ExactlyOneFinish ==
    /\ (Returned /\ ret.tx # NoTx) =>
          /\ StatusOf(db, ret.tx) # "open"
          /\ Cardinality(Effective(ret.ops)) = 1
    /\ \A t \in 1 .. Len(db.txs) : db.txs[t].status = "open" => t \in OwnedTxs

C6_Witness ==
    /\ Returned /\ ret.tx # NoTx
    /\ ret.fnOut = "nil" /\ ret.result.kind = "err"
    /\ Len(ret.ops) = 2 /\ ret.ops[1].res = "errOpen"
    /\ StatusOf(db, ret.tx) = "rolledback"

\* C7: a panic of serviceFn leaves WithinTransaction as a panic, not as an
\* error, and the transaction is closed, never committed, when the panic
\* reaches the caller.
C7_PanicPropagatesAfterRollback ==
    (Returned /\ ret.fnOut = "panic") =>
       /\ ret.result.kind = "panic"
       /\ ret.result = ret.fnErr
       /\ StatusOf(db, ret.tx) = "rolledback"
       /\ ~Issued(ret.ops, "commit")
       /\ ret.depth > 1 =>
             /\ stack[ret.proc][ret.depth - 1].pending
             /\ stack[ret.proc][ret.depth - 1].nested = ret.result

C7_Witness ==
    /\ Returned /\ ret.fnOut = "panic" /\ ret.depth = 2
    /\ ret.wrote /\ StatusOf(db, ret.tx) = "rolledback"
    /\ stack[ret.proc][1].pending

\* C8 as claimed: when serviceFn returns an error, WithinTransaction returns
\* that same error value, unchanged and unwrapped.
C8_ErrorReturnedUnchanged ==
    (Returned /\ ret.fnOut = "err") => ret.result = ret.fnErr

\* C8 as amended: the GormTransactor method returns the error of serviceFn
\* unchanged; the package-level WithinTransaction returns it with the same
\* root cause inside one more wrapper, "error executing service function".
C8_ErrorReturnedPerApi ==
    (Returned /\ ret.fnOut = "err") =>
       /\ ret.result.kind = "err"
       /\ ret.result.cause = ret.fnErr.cause
       /\ ret.result.at = ret.fnErr.at
       /\ api = "method" => ret.result.wraps = ret.fnErr.wraps
       /\ api = "func" => ret.result.wraps = <<MsgExecutingService>> \o ret.fnErr.wraps

C8_Witness ==
    /\ Returned /\ ret.fnOut = "err" /\ ret.depth = 1
    /\ ret.fnErr.at = ret.id + 1 /\ ret.fnErr.cause = "service error"
    /\ \/ api = "method" /\ ret.result.wraps = << >>
       \/ api = "func" /\ ret.result.wraps = <<MsgExecutingService, MsgExecutingService>>

\* C9: Commit on a context with no transaction attached returns no error and
\* issues nothing to the store.
C9_CommitWithoutTxIsNoOp ==
    (inv.op = "commit" /\ Value(inv.ctx, ContextKeyGormTx) = NilVal) =>
       /\ inv.err = NilErr
       /\ ~inv.changed

C9_Witness ==
    /\ inv.op = "commit" /\ inv.ctx = Background
    /\ Len(db.txs) > 0

\* C10: Rollback on a transaction that is already committed or rolled back
\* is ignored: it raises nothing, reports nothing, and leaves the outcome of
\* the transaction and the visible rows as they were.
C10_RollbackIdempotent ==
    (inv.op = "rollback" /\ inv.before \in {"committed", "rolledback"}) =>
       /\ ~inv.raised
       /\ inv.log = ""
       /\ inv.after = inv.before
       /\ ~inv.visChanged

C10_Witness ==
    /\ inv.op = "rollback" /\ inv.before = "rolledback" /\ inv.after = "rolledback"
    /\ Returned /\ ret.rolled /\ ret.id = inv.by
    /\ Len(ret.ops) = 2 /\ ret.ops[2].res = "txdone"

\* C11: a rollback failure is never propagated: Rollback returns normally
\* whatever it met, and WithinTransaction still returns the error of serviceFn
\* (or its panic) or the result of Commit, never an error of the Rollback.
C11_RollbackFailureNotPropagated ==
    /\ inv.op = "rollback" => ~inv.raised /\ inv.err = NilErr
    /\ (Returned /\ ret.tx # NoTx) =>
          /\ ret.result.cause # "rollback failed"
          /\ ret.fnOut = "panic" => ret.result = ret.fnErr
          /\ ret.fnOut = "err" =>
                /\ ret.result.kind = "err"
                /\ ret.result.cause = ret.fnErr.cause /\ ret.result.at = ret.fnErr.at
          /\ ret.fnOut = "nil" =>
                \A i \in 1 .. Len(ret.ops) : ret.ops[i].op = "commit" =>
                   /\ ret.ops[i].res = "ok" => ret.result = NilErr
                   /\ ret.ops[i].res = "err" => ret.result.cause = "commit failed"
                   /\ ret.ops[i].res = "errOpen" => ret.result.cause = "context canceled"
                   /\ ret.ops[i].res = "txdone" => ret.result.cause = ErrTxDone

C11_Witness ==
    /\ Returned /\ ret.fnOut = "err" /\ ret.result.cause = "service error"
    /\ Len(ret.ops) = 1 /\ ret.ops[1].op = "rollback" /\ ret.ops[1].res = "err"
    /\ inv.op = "rollback" /\ inv.log = "rollback error" /\ ~inv.raised

\* C12: when the store cannot start a transaction, WithinTransaction returns
\* the transaction error of Begin at once: the store is asked once and holds
\* no new transaction, serviceFn is not invoked, and no Commit or Rollback is
\* issued.
C12_BeginFailureIsFatal ==
    [][(nCalls' = nCalls + 1 /\ nFaults' = nFaults + 1 /\ inv'.op = "none") =>
          /\ ret'.id = nCalls' /\ ret'.fnOut = "none"
          /\ ret'.result.kind = "err" /\ ret'.result.cause = "begin failed"
          /\ ret'.result.wraps = <<MsgStartingTransaction, MsgTransactionError>>
          /\ ret'.ctx = NilCtx /\ ret'.tx = NoTx /\ ret'.ops = << >>
          /\ db' = db
          /\ \A p \in Procs : Len(stack'[p]) = Len(stack[p])]_vars

C12_Witness ==
    /\ Returned /\ ret.fnOut = "none" /\ ret.depth = 2
    /\ ret.result.cause = "begin failed" /\ ret.tx = NoTx
    /\ stack[ret.proc][1].nested = ret.result

\* C13: when serviceFn returned nil and the store failed the Commit,
\* WithinTransaction returns a transaction error with the commit failure as
\* its cause; it reports success only when the rows of serviceFn are committed.
C13_CommitFailureReturned ==
    (Returned /\ ret.fnOut = "nil") =>
       /\ \A i \in 1 .. Len(ret.ops) :
             (ret.ops[i].op = "commit" /\ ret.ops[i].res # "ok") =>
                /\ ret.result.kind = "err"
                /\ ret.result.wraps = <<MsgTransactionError>>
                /\ ret.result.cause \in {"commit failed", "context canceled", ErrTxDone}
       /\ ret.result.kind = "nil" =>
             /\ StatusOf(db, ret.tx) = "committed"
             /\ ret.wrote => ret.id \in db.visible

C13_Witness ==
    /\ Returned /\ ret.fnOut = "nil" /\ ret.wrote
    /\ ret.ops[1].op = "commit" /\ ret.ops[1].res = "err"
    /\ ret.result.cause = "commit failed" /\ ret.id \notin db.visible

\* C14: Insert, Update and Delete of the zero value of T return the
\* validation error without resolving a connection and without issuing a
\* query; the store is unchanged.
C14_ZeroValueRejected ==
    (repoOp.name \in {"insert", "update", "delete"} /\ repoOp.arg = Zero) =>
       /\ repoOp.err.kind = "err" /\ repoOp.err.cause = MsgZeroValue
       /\ repoOp.err.wraps = << >>
       /\ ~repoOp.resolved /\ repoOp.via = NilVal
       /\ repoOp.queries = 0 /\ ~repoOp.changed
       /\ repoOp.res = Zero

C14_Witness ==
    /\ repoOp.name = "delete" /\ repoOp.arg = Zero /\ repoOp.ctx = BadCtx
    /\ repoOp.err.cause = MsgZeroValue /\ StoreAllRows(db) # {}

\* C15: BatchInsert of an empty (or nil) list returns the caller error and
\* issues no query; of a non-empty list it issues one statement, and when
\* that succeeds every model is a row of the store and is returned, in order.
C15_BatchInsert ==
    repoOp.name = "batchInsert" =>
       /\ Len(repoOp.args) = 0 =>
             /\ repoOp.err.kind = "err" /\ repoOp.err.cause = MsgEmptyModels
             /\ repoOp.queries = 0 /\ ~repoOp.changed /\ repoOp.list = << >>
       /\ (Len(repoOp.args) > 0 /\ repoOp.resolved /\ repoOp.via # NilVal) =>
             repoOp.queries = 1
       /\ (Len(repoOp.args) > 0 /\ repoOp.err = NilErr) =>
             /\ Len(repoOp.list) = Len(repoOp.args)
             /\ \A i \in 1 .. Len(repoOp.list) :
                   /\ repoOp.list[i] \in StoreView(db, repoOp.via)
                   /\ repoOp.list[i].name = repoOp.args[i].name
                   /\ repoOp.list[i].id # 0
                   /\ repoOp.args[i].id # 0 => repoOp.list[i].id = repoOp.args[i].id
             /\ \A i, j \in 1 .. Len(repoOp.list) :
                   i # j => repoOp.list[i].id # repoOp.list[j].id
       /\ repoOp.err # NilErr => ~repoOp.changed /\ repoOp.list = << >>

C15_Witness ==
    /\ repoOp.name = "batchInsert" /\ Len(repoOp.args) = 2 /\ repoOp.err = NilErr
    /\ Len(repoOp.list) = 2 /\ repoOp.list[1].id # repoOp.list[2].id
    /\ {repoOp.list[1], repoOp.list[2]} \subseteq StoreView(db, repoOp.via)

\* C16: FindFirst returns the zero value and a nil error when no row matches
\* the specification; the errors it returns are failures of the store or of
\* the resolution of the connection, never "record not found".
C16_NotFoundIsNotAnError ==
    repoOp.name = "findFirst" =>
       /\ repoOp.err # NilErr =>
             /\ repoOp.err.kind = "err"
             /\ repoOp.err.cause \in {"store failure", ErrTxDone, "error getting tx from ctx"}
             /\ repoOp.res = Zero
       /\ (repoOp.via # NilVal /\ StoreUsable(db, repoOp.via)) =>
             LET m == {r \in StoreView(db, repoOp.via) : Matches(r, repoOp.arg)}
             IN  /\ (m = {} /\ repoOp.err.cause # "store failure") =>
                        repoOp.err = NilErr /\ repoOp.res = Zero
                 /\ (m # {} /\ repoOp.err = NilErr) => repoOp.res \in m

C16_Witness ==
    /\ repoOp.name = "findFirst" /\ repoOp.err = NilErr /\ repoOp.res = Zero
    /\ repoOp.arg # Zero /\ repoOp.via = BaseDB
    /\ db.visible # {}
    /\ \A r \in db.visible : ~Matches(r, repoOp.arg)

\* C17: every repository call resolves its connection from the context of
\* that call alone: through the transaction the context carries, touching
\* nothing but that transaction, and through the base connection when the
\* context carries none, whatever the calls before it went through.
C17_ConnectionResolvedPerCall ==
    [][repoOp'.resolved =>
          LET v == Value(repoOp'.ctx, ContextKeyGormTx)
          IN  /\ v.type = "tx" =>
                    /\ repoOp'.via = v
                    /\ db'.visible = db.visible
                    /\ \A t \in 1 .. Len(db.txs) : t # v.id => db'.txs[t] = db.txs[t]
              /\ v = NilVal => repoOp'.via = BaseDB /\ db'.txs = db.txs
              /\ v.type = "other" => repoOp'.via = NilVal /\ db' = db]_vars

C17_Witness ==
    /\ repoOp.name = "findFirst" /\ repoOp.ctx = Background /\ repoOp.via = BaseDB
    /\ repoOp.arg = Zero /\ repoOp.err = NilErr /\ repoOp.res = Zero
    /\ \E t \in 1 .. Len(db.txs) : StatusOf(db, t) = "open" /\ db.txs[t].writes # {}

C19_ReadAfterWriteInUnit ==
    repoOp.name = "findAll" =>
       \A p \in Procs :
          (stack[p] # << >> /\ Top(p).id = repoOp.by
              /\ \A i \in 1 .. Len(stack[p]) : ~stack[p][i].rolled) =>
             /\ repoOp.via = TxVal(stack[p][1].tx)
             /\ Top(p).rows \subseteq repoOp.rows

\* C20: concurrent units of work do not interfere: every call in progress has
\* a transaction of its own, found in its own context and in no context of
\* another goroutine; only the call that began a transaction commits or rolls
\* it back, and the writes and reads of a call go through its own transaction.
C20_UnitsDoNotInterfere ==
    /\ \A f, g \in Frames : f.id # g.id => f.tx # g.tx
    /\ \A f \in Frames :
          /\ GetTxFromContext(f.ctx).tx = f.tx
          /\ ~f.rolled => StatusOf(db, f.tx) = "open"
          /\ \A i \in 1 .. Len(db.txs[f.tx].ops) : db.txs[f.tx].ops[i].by = f.id
          /\ db.txs[f.tx].writes \subseteq {f.id}
          /\ (f.wrote /\ ~f.rolled) => f.id \in db.txs[f.tx].writes
          /\ repoOp.by = f.id => repoOp.via = TxVal(f.tx)
    /\ \A p, q \in Procs : p # q =>
          \A i \in 1 .. Len(stack[p]) : \A j \in 1 .. Len(stack[q]) :
             \A k \in 1 .. Len(stack[q][j].ctx) :
                stack[q][j].ctx[k].val # TxVal(stack[p][i].tx)
    /\ Returned => \A i \in 1 .. Len(ret.ops) : ret.ops[i].by = ret.id

C20_Witness ==
    /\ Returned /\ ret.result = NilErr /\ ret.wrote /\ ret.id \in db.visible
    /\ \E f \in Frames :
          /\ f.proc # ret.proc /\ f.wrote
          /\ StatusOf(db, f.tx) = "open"
          /\ f.id \in db.txs[f.tx].writes /\ f.id \notin db.visible

\* C21: when the context is cancelled while serviceFn runs and serviceFn
\* returns the cancellation error of the store, WithinTransaction returns it
\* the way it returns any error of serviceFn (the method as it is, the
\* package-level function inside its one wrapper), never calls Commit, and
\* the transaction is rolled back with none of its rows visible.
C21_CancellationIsFnError ==
    (Returned /\ ret.fnOut = "err" /\ ret.fnErr = NewErr("context canceled", 0)) =>
       /\ ret.result.kind = "err"
       /\ ret.result.cause = "context canceled" /\ ret.result.at = 0
       /\ ret.result.wraps = (IF api = "method" THEN << >> ELSE <<MsgExecutingService>>)
       /\ ~Issued(ret.ops, "commit")
       /\ Issued(ret.ops, "rollback")
       /\ StatusOf(db, ret.tx) = "rolledback"
       /\ ret.id \notin db.visible

C21_Witness ==
    /\ Returned /\ ret.fnOut = "err" /\ ret.fnErr = NewErr("context canceled", 0)
    /\ ret.wrote /\ ret.depth = 1
    /\ Len(ret.ops) = 2 /\ ret.ops[1].op = "cancel" /\ ret.ops[2].res = "txdone"
    /\ StatusOf(db, ret.tx) = "rolledback"

C30_CommitThenDeferredRollback ==
    (Returned /\ ret.fnOut = "nil" /\ ret.tx # NoTx) =>
       LET n == Len(ret.ops)
       IN  /\ n >= 2
           /\ ret.ops[n - 1].op = "commit" /\ ret.ops[n].op = "rollback"
           /\ \A i \in 1 .. n : ret.ops[i].op = "commit" => i = n - 1
           /\ inv.op = "rollback" /\ inv.by = ret.id
           /\ ret.ops[n - 1].res = "ok" =>
                 /\ ret.ops[n].res = "txdone"
                 /\ inv.before = "committed" /\ inv.after = "committed"
                 /\ inv.log = "" /\ ~inv.raised /\ ~inv.visChanged
                 /\ StatusOf(db, ret.tx) = "committed"
                 /\ ret.wrote => ret.id \in db.visible
           /\ ret.ops[n - 1].res # "ok" =>
                 /\ StatusOf(db, ret.tx) = "rolledback"
                 /\ ret.id \notin db.visible
           /\ ret.ops[n - 1].res = "errOpen" => ret.ops[n].res \in {"ok", "err"}

C30_Witness ==
    /\ Returned /\ ret.fnOut = "nil" /\ ret.wrote /\ ~ret.rolled
    /\ Len(ret.ops) = 2
    /\ ret.ops[1].op = "commit" /\ ret.ops[1].res = "ok"
    /\ ret.ops[2].op = "rollback" /\ ret.ops[2].res = "txdone"
    /\ ret.id \in db.visible

\* C22: the handle is kept under a key of the private type txKey.  A value
\* that sits in the context under the plain string "ezutil.gormTx" only is
\* never returned by GetTxFromContext and never used as a transaction: Commit
\* and Rollback do nothing, and a repository call goes through the base
\* connection.
C22_PlainStringKeyIsNoTransaction ==
    (/\ repoOp.name # "none" /\ repoOp.ctx # Background
     /\ \A i \in 1 .. Len(repoOp.ctx) : repoOp.ctx[i].key = PlainKey) =>
       /\ repoOp.via \in {BaseDB, NilVal}
       /\ repoOp.name = "getTx" => repoOp.via = NilVal /\ repoOp.err = NilErr
       /\ repoOp.name \in {"commit", "rollback"} => ~repoOp.changed /\ repoOp.err = NilErr
       /\ repoOp.resolved => repoOp.via = BaseDB
       /\ (repoOp.name = "insert" /\ repoOp.err = NilErr) => repoOp.res \in db.visible

C22_Witness ==
    /\ repoOp.name = "commit" /\ ~repoOp.changed /\ repoOp.err = NilErr
    /\ \E t \in 1 .. Len(db.txs) :
          /\ repoOp.ctx = PlainCtx(t)
          /\ StatusOf(db, t) = "open" /\ db.txs[t].writes # {}

C25_OrderByAllowList ==
    util.fn = "OrderBy" =>
       LET allowed == (97 .. 122) \cup (65 .. 90) \cup (48 .. 57) \cup {95, 46}
           bad == \E i \in 1 .. Len(util.field) : util.field[i] \notin allowed
       IN  /\ bad =>
                 /\ util.stmt.order = << >>
                 /\ Len(util.stmt.errors) = 1
                 /\ util.stmt.errors[1].arg = util.field
           /\ (~bad /\ util.field # << >>) =>
                 /\ util.stmt.errors = << >>
                 /\ util.stmt.order =
                       <<util.field \o (IF util.ascending THEN <<32, 65, 83, 67>>
                                        ELSE <<32, 68, 69, 83, 67>>)>>
           /\ util.stmt.limit = << >> /\ util.stmt.offset = << >>

C25_Witness ==
    /\ util.fn = "OrderBy" /\ util.field = <<97, 59>> /\ util.ascending
    /\ util.stmt.order = << >> /\ Len(util.stmt.errors) = 1

\* C26: Paginate(page, limit) with page < 1 applies what Paginate(1, limit)
\* applies, the limit as given and offset 0; with page >= 1 it applies the
\* limit as given and the offset (page - 1) * limit, a product of Go ints: the
\* exact product whenever that fits the int, its wrap-around otherwise.
C26_PaginateClampsPage ==
    util.fn = "Paginate" =>
       LET exact == (util.page - 1) * util.limit
           offset == util.stmt.offset[1]
       IN  /\ util.stmt.limit = <<util.limit>>
           /\ Len(util.stmt.offset) = 1
           /\ util.stmt.order = << >> /\ util.stmt.errors = << >>
           /\ util.page < 1 =>
                 /\ offset = 0
                 /\ util.stmt = Paginate(1, util.limit, NoStatement)
           /\ util.page >= 1 =>
                 /\ offset \in Ints
                 /\ (offset - exact) % (2 ^ IntBits) = 0
                 /\ exact \in Ints => offset = exact

C26_Witness ==
    /\ util.fn = "Paginate" /\ util.page = -3 /\ util.limit = 2
    /\ util.stmt.limit = <<2>> /\ util.stmt.offset = <<0>>

\* C27: GetTimeRangeClause(col, start, end) returns the empty clause and nil
\* arguments when start and end are both the zero time, "col >= ?" with
\* [start] when only end is zero, "col <= ?" with [end] when only start is
\* zero, and "col BETWEEN ? AND ?" with [start, end] otherwise: the arguments
\* as they were given, in that order, also when start is after end.
C27_TimeRangeClause ==
    util.fn = "GetTimeRangeClause" =>
       LET zs == util.start.sec = 0
           ze == util.end.sec = 0
           r == util.res
       IN  /\ (zs /\ ze) => r.clause = "" /\ r.nilArgs /\ r.args = << >>
           /\ (~zs /\ ze) =>
                 r.clause = util.timeCol \o " >= ?" /\ r.args = <<util.start>> /\ ~r.nilArgs
           /\ (zs /\ ~ze) =>
                 r.clause = util.timeCol \o " <= ?" /\ r.args = <<util.end>> /\ ~r.nilArgs
           /\ (~zs /\ ~ze) =>
                 /\ r.clause = util.timeCol \o " BETWEEN ? AND ?"
                 /\ r.args = <<util.start, util.end>> /\ ~r.nilArgs

C27_Witness ==
    /\ util.fn = "GetTimeRangeClause" /\ util.timeCol = "created_at"
    /\ util.start.sec = 2 /\ util.end.sec = 1 /\ util.start.loc # util.end.loc
    /\ util.res.clause = "created_at BETWEEN ? AND ?"
    /\ util.res.args = <<util.start, util.end>>

\* C28: when setupFunc of a Job returns an error, Run reports "error setting
\* up job: <err>" through Fatalf of the logger, and neither the run function
\* nor the cleanup function is called.
C28_SetupErrorStopsJob ==
    (util.fn = "Run" /\ util.job.setupFunc = "err") =>
       /\ \E i \in 1 .. Len(util.did) :
             util.did[i] = Did("Fatalf", "error setting up job: setup failed")
       /\ \A i \in 1 .. Len(util.did) :
             util.did[i].what = "call" => util.did[i].text = "setupFunc"

====
